---- MODULE Spec2Model ----
(***************************************************************************)
(* Model of postcode_lookup.py: PostcodeLookup (normalize_postcode,        *)
(* lookup_single, lookup_batch, lookup_all), extract_fields and the part   *)
(* of process_excel that runs once the postcode column has been read.      *)
(*                                                                         *)
(* A string is a sequence of one-character strings.  An Optional[Dict] is  *)
(* None (the empty sequence) or <<dict>>.  A Python dict is the sequence   *)
(* of its <<key, value>> pairs in insertion order.                         *)
(***************************************************************************)
EXTENDS Integers, Sequences, FiniteSets, TLC

\* ------------------------------------------------------------------ bounds

\* Longest input column for which every list over Codes is explored.
MaxLen == 3

\* PostcodeLookup.BATCH_SIZE
BATCH_SIZE == 100

\* ------------------------------------------------------------ input cells

\* An empty spreadsheet cell, as pandas reads it: the one missing-value
\* object of an object column, so every empty cell is the same dict key.
NaN == <<"nan">>

\* The cells a postcode column is filled from: an empty cell, a blank
\* string, two spellings of one postcode, and a second postcode with a
\* trailing tab.
Codes ==
    { NaN,
      <<" ">>,
      <<"a", " ", "b">>,
      <<"A", "B">>,
      <<"x", "\t">> }

\* Lengths of the long columns, chosen around the batch size: one full batch,
\* one full batch plus one, two and a half.
LongSizes == {BATCH_SIZE, BATCH_SIZE + 1, 2 * BATCH_SIZE + BATCH_SIZE \div 2}

Min(a, b) == IF a < b THEN a ELSE b

\* ---------------------------------------------------------- Python helpers

None == <<>>

Some(v) == <<v>>

\* s[lo:hi] with 0 <= lo.
Slice(s, lo, hi) == SubSeq(s, lo + 1, Min(hi, Len(s)))

DictKeys(d) == [j \in 1..Len(d) |-> d[j][1]]

DictValues(d) == [j \in 1..Len(d) |-> d[j][2]]

DictHas(d, k) == \E j \in 1..Len(d) : d[j][1] = k

\* d.get(k)
DictGet(d, k) ==
    IF DictHas(d, k)
    THEN d[CHOOSE j \in 1..Len(d) : d[j][1] = k][2]
    ELSE None

\* d[k] = v: an existing key keeps its place, a new key goes last.
DictSet(d, k, v) ==
    IF DictHas(d, k)
    THEN [d EXCEPT ![CHOOSE j \in 1..Len(d) : d[j][1] = k] = <<k, v>>]
    ELSE Append(d, <<k, v>>)

\* The dict left by the assignments that built d1 followed by those that
\* built d2: d1's keys keep their places and take d2's values where d2 has
\* the key, d2's other keys follow in d2's order.
DictMerge(d1, d2) ==
    [j \in 1..Len(d1) |->
        <<d1[j][1], IF DictHas(d2, d1[j][1]) THEN DictGet(d2, d1[j][1]) ELSE d1[j][2]>>]
    \o SelectSeq(d2, LAMBDA p : ~DictHas(d1, p[1]))

\* ------------------------------------------------------ normalize_postcode

Whitespace == {" ", "\t"}

Upper(c) ==
    CASE c = "a" -> "A"
      [] c = "b" -> "B"
      [] c = "x" -> "X"
      [] OTHER -> c

\* str.replace(" ", "")
ReplaceSpaces(s) == SelectSeq(s, LAMBDA c : c # " ")

RECURSIVE LStrip(_)
LStrip(s) ==
    IF s # <<>> /\ Head(s) \in Whitespace THEN LStrip(Tail(s)) ELSE s

RECURSIVE RStrip(_)
RStrip(s) ==
    IF s # <<>> /\ s[Len(s)] \in Whitespace
    THEN RStrip(SubSeq(s, 1, Len(s) - 1))
    ELSE s

\* str.strip()
Strip(s) == RStrip(LStrip(s))

\* str.upper()
UpperStr(s) == [k \in 1..Len(s) |-> Upper(s[k])]

\* pd.isna
IsNa(postcode) == postcode = NaN

normalize_postcode(postcode) ==
    IF IsNa(postcode) THEN <<>> ELSE UpperStr(Strip(ReplaceSpaces(postcode)))

\* ------------------------------------------------------- the remote service

\* The 'result' object the service holds for a normalized postcode.
Result(q) ==
    [ admin_ward |-> <<"ward">> \o q,
      admin_district |-> <<"district">> \o q,
      parliamentary_constituency |-> <<"constituency">> \o q,
      region |-> <<"region">> \o q,
      country |-> <<"country">> \o q,
      postcode |-> q,
      latitude |-> <<"lat">> \o q,
      longitude |-> <<"lon">> \o q ]

\* What a GET /postcodes/<code> can do: 200 with a result, 200 with a body
\* that has no result, 404, another status, a transport error or timeout.
SingleOutcomes == {"found", "empty", "notfound", "status", "error"}

\* What POST /postcodes can do with one query of its body: echo it with a
\* result, echo it with a null result, leave it out of the response.
EchoOutcomes == {"found", "null", "missing"}

NoEcho == <<>>

NoSingle == <<>>

NoReply == [kind |-> "none", echo |-> NoEcho, single |-> NoSingle]

\* ------------------------------------------------------------ lookup_single

\* lookup_single(postcode) when the service answers a GET with `outcome`:
\* the value returned, the GET requests issued, whether a line was printed,
\* and whether an exception left the method.
NotRequested(postcode) ==
    [ret |-> None, gets |-> <<>>, warned |-> FALSE, raised |-> FALSE]

\* lookup_single without its `except` clause.
lookup_single_NoExcept(postcode, outcome) ==
    LET normalized == normalize_postcode(postcode) IN
    IF normalized = <<>>
    THEN NotRequested(postcode)
    ELSE [ ret |-> IF outcome = "found" THEN Some(Result(normalized)) ELSE None,
           gets |-> <<normalized>>,
           warned |-> outcome = "status",
           raised |-> outcome = "error" ]

\* lookup_single with the 404 branch falling into the warning branch.
lookup_single_Warns404(postcode, outcome) ==
    LET normalized == normalize_postcode(postcode) IN
    IF normalized = <<>>
    THEN NotRequested(postcode)
    ELSE [ ret |-> IF outcome = "found" THEN Some(Result(normalized)) ELSE None,
           gets |-> <<normalized>>,
           warned |-> outcome \in {"notfound", "status", "error"},
           raised |-> FALSE ]

lookup_single(postcode, outcome) ==
    LET normalized == normalize_postcode(postcode) IN
    IF normalized = <<>>
    THEN NotRequested(postcode)
    ELSE [ ret |-> IF outcome = "found" THEN Some(Result(normalized)) ELSE None,
           gets |-> <<normalized>>,
           warned |-> outcome \in {"status", "error"},
           raised |-> FALSE ]

\* ------------------------------------------------------------- lookup_batch

\* The loops over a batch below run left to right.  A batch of two or more
\* codes is walked as its first half followed by its second half, the two
\* halves' assignments merged in that order; this keeps the nesting of the
\* evaluation logarithmic in the batch size.
FirstHalf(s) == SubSeq(s, 1, Len(s) \div 2)

SecondHalf(s) == SubSeq(s, Len(s) \div 2 + 1, Len(s))

\* {self.normalize_postcode(pc): pc for pc in postcodes}
RECURSIVE NormalizedMap(_)
NormalizedMap(postcodes) ==
    IF postcodes = <<>>
    THEN <<>>
    ELSE IF Len(postcodes) = 1
    THEN <<<<normalize_postcode(postcodes[1]), postcodes[1]>>>>
    ELSE DictMerge(NormalizedMap(FirstHalf(postcodes)),
                   NormalizedMap(SecondHalf(postcodes)))

\* The keys of normalized_map with the `if pc` filter left out.
NormalizedPostcodes_Unfiltered(normalized_map) == DictKeys(normalized_map)

\* [pc for pc in normalized_map.keys() if pc]
NormalizedPostcodes(normalized_map) ==
    SelectSeq(DictKeys(normalized_map), LAMBDA k : k # <<>>)

\* {pc: None for pc in postcodes}
RECURSIVE NoneForEach(_)
NoneForEach(postcodes) ==
    IF postcodes = <<>>
    THEN <<>>
    ELSE IF Len(postcodes) = 1
    THEN <<<<postcodes[1], None>>>>
    ELSE DictMerge(NoneForEach(FirstHalf(postcodes)),
                   NoneForEach(SecondHalf(postcodes)))

\* `if original:` - a missing key gives None, an empty string is falsy, any
\* other cell (NaN too) is truthy.
Truthy(original) == original # <<>>

\* The items of a 200 response, in the order of the request body.
EchoOf(echo, q) == IF q \in DOMAIN echo THEN echo[q] ELSE "missing"

ResponseItems(body, echo) ==
    SelectSeq(body, LAMBDA q : EchoOf(echo, q) # "missing")

\* for item in data['result']: ... results[original] = item.get('result')
RECURSIVE MatchItems(_, _, _)
MatchItems(items, normalized_map, echo) ==
    IF items = <<>>
    THEN <<>>
    ELSE IF Len(items) = 1
    THEN LET query == UpperStr(items[1])
             original == DictGet(normalized_map, query)
             item_result == IF EchoOf(echo, items[1]) = "found"
                            THEN Some(Result(items[1]))
                            ELSE None
         IN  IF Truthy(original)
             THEN <<<<original, item_result>>>>
             ELSE <<>>
    ELSE DictMerge(MatchItems(FirstHalf(items), normalized_map, echo),
                   MatchItems(SecondHalf(items), normalized_map, echo))

\* The fallback loop running over the request body instead of the batch.
FallbackOver_Normalized(postcodes, normalized_postcodes) == normalized_postcodes

\* `for pc in postcodes`: the list the fallback loop runs over.
FallbackOver(postcodes, normalized_postcodes) == postcodes

\* What has happened so far in a lookup_batch call.
Nothing ==
    [raised |-> FALSE, results |-> <<>>, http |-> <<>>, single_log |-> <<>>, sleeps |-> 0]

\* `first` followed by `second`; `second` does not happen when an exception
\* ended `first`.
Then(first, second) ==
    IF first.raised
    THEN first
    ELSE [ raised |-> second.raised,
           results |-> DictMerge(first.results, second.results),
           http |-> first.http \o second.http,
           single_log |-> first.single_log \o second.single_log,
           sleeps |-> first.sleeps + second.sleeps ]

\* for pc in postcodes: sleep(self.delay); results[pc] = self.lookup_single(pc)
RECURSIVE Fallback(_, _)
Fallback(postcodes, single) ==
    IF postcodes = <<>>
    THEN Nothing
    ELSE IF Len(postcodes) = 1
    THEN LET pc == postcodes[1]
             outcome == IF pc \in DOMAIN single THEN single[pc] ELSE "notfound"
             r == lookup_single(pc, outcome)
         IN  [ raised |-> r.raised,
               results |-> IF r.raised THEN <<>> ELSE <<<<pc, r.ret>>>>,
               http |-> [k \in 1..Len(r.gets) |-> <<"GET", r.gets[k]>>],
               single_log |-> << [pc |-> pc, ret |-> r.ret,
                                  gets |-> Len(r.gets), warned |-> r.warned] >>,
               sleeps |-> 1 ]
    ELSE Then(Fallback(FirstHalf(postcodes), single),
              Fallback(SecondHalf(postcodes), single))

\* lookup_batch(postcodes) when the service behaves as `reply` says: the dict
\* returned, the HTTP requests issued, the lookup_single calls made, the
\* sleeps taken, and whether an exception left the method.
lookup_batch(postcodes, reply) ==
    LET normalized_map == NormalizedMap(postcodes)
        normalized_postcodes == NormalizedPostcodes(normalized_map)
        posted == [Nothing EXCEPT !.http = <<<<"POST", normalized_postcodes>>>>]
    IN  IF Len(postcodes) > BATCH_SIZE
        THEN [Nothing EXCEPT !.raised = TRUE]
        ELSE IF normalized_postcodes = <<>>
        THEN [Nothing EXCEPT !.results = NoneForEach(postcodes)]
        ELSE CASE reply.kind = "ok" ->
                    [posted EXCEPT !.results =
                        MatchItems(ResponseItems(normalized_postcodes, reply.echo),
                                   normalized_map, reply.echo)]
               [] reply.kind = "status" ->
                    Then(posted,
                         Fallback(FallbackOver(postcodes, normalized_postcodes),
                                  reply.single))
               [] reply.kind = "error" ->
                    Then(posted,
                         Fallback(FallbackOver(postcodes, normalized_postcodes),
                                  reply.single))
               \* 200 with a body whose status is not 200 or whose result is empty
               [] OTHER -> posted

\* ----------------------------------------------------------- extract_fields

extract_fields(result) ==
    IF result = None
    THEN [ admin_ward |-> None,
           admin_district |-> None,
           parliamentary_constituency |-> None,
           region |-> None,
           country |-> None,
           postcode_formatted |-> None,
           latitude |-> None,
           longitude |-> None ]
    ELSE [ admin_ward |-> result[1].admin_ward,
           admin_district |-> result[1].admin_district,
           parliamentary_constituency |-> result[1].parliamentary_constituency,
           region |-> result[1].region,
           country |-> result[1].country,
           postcode_formatted |-> result[1].postcode,
           latitude |-> result[1].latitude,
           longitude |-> result[1].longitude ]

\* ------------------------------------------------------------------ state

VARIABLES
    df,               \* the table read from the input file
    stage,            \* "lookup": in lookup_all's loop; "done": table written;
                      \* "raised": an exception left lookup_all
    i,                \* lookup_all's loop variable
    results,          \* lookup_all's accumulating list
    batch_results,    \* the dict the last lookup_batch call returned
    batch,            \* the list the last lookup_batch call was given
    reply,            \* how the service behaved during the last lookup_batch call
    http,             \* the requests the last lookup_batch call issued
    single_log,       \* the lookup_single calls the last lookup_batch call made
    fallback_sleeps,  \* the sleeps the last lookup_batch call took
    trace,            \* lookup_all's lookup_batch calls and sleeps, in order
    expected,         \* per input row so far, the service's answer for that row
    output,           \* the table written to the output file
    report            \* the success count printed

vars ==
    << df, stage, i, results, batch_results, batch, reply, http, single_log,
       fallback_sleeps, trace, expected, output, report >>

\* df[postcode_column].tolist()
Postcodes == [r \in 1..Len(df) |-> df[r].postcode]

\* A table with a postcode column and one more column that tells rows apart.
Table(codes) ==
    [r \in 1..Len(codes) |-> [postcode |-> codes[r], description |-> <<"row", r>>]]

ShortInputs == UNION {[1..n -> Codes] : n \in 0..MaxLen}

\* A cell unlike c: a postcode among blank cells, an empty cell among
\* postcodes.
Unlike(c) == IF normalize_postcode(c) = <<>> THEN <<"x", "\t">> ELSE NaN

\* Long columns: one cell value repeated, except that the first cell after
\* the first full batch differs, which tells the batches apart.
LongInputs ==
    {[r \in 1..n |-> IF r = BATCH_SIZE + 1 THEN Unlike(c) ELSE c] :
        c \in Codes, n \in LongSizes}

Inputs == ShortInputs \cup LongInputs

NoOutput == <<>>

NoReport == [successful |-> 0, total |-> 0]

Init ==
    /\ df \in {Table(codes) : codes \in Inputs}
    /\ stage = "lookup"
    /\ i = 0
    /\ results = <<>>
    /\ batch_results = <<>>
    /\ batch = <<>>
    /\ reply = NoReply
    /\ http = <<>>
    /\ single_log = <<>>
    /\ fallback_sleeps = 0
    /\ trace = <<>>
    /\ expected = <<>>
    /\ output = NoOutput
    /\ report = NoReport

\* ---------------------------------------------------- the service's answers

\* The distinct non-blank normalized codes of a batch.
Queries(postcodes) ==
    {normalize_postcode(postcodes[j]) : j \in 1..Len(postcodes)} \ {<<>>}

\* The distinct cells of a batch that are not blank.
NonBlank(postcodes) ==
    {c \in {postcodes[j] : j \in 1..Len(postcodes)} : normalize_postcode(c) # <<>>}

\* The reference the claims are read against (not part of the program): what
\* the service said about one input cell during a lookup_batch call.
Answer(c, rep) ==
    LET q == normalize_postcode(c) IN
    IF q = <<>>
    THEN None
    ELSE CASE rep.kind = "ok" ->
                 IF EchoOf(rep.echo, q) = "found" THEN Some(Result(q)) ELSE None
           [] rep.kind \in {"status", "error"} ->
                 IF c \in DOMAIN rep.single /\ rep.single[c] = "found"
                 THEN Some(Result(q))
                 ELSE None
           [] OTHER -> None

ExpectedFor(postcodes, rep) ==
    [j \in 1..Len(postcodes) |-> Answer(postcodes[j], rep)]

\* --------------------------------------------------------------- lookup_all

\* The sleep test with <= for <.
MoreBatches_Inclusive(start, total) == start + BATCH_SIZE <= total

\* if i + self.BATCH_SIZE < total
MoreBatches(start, total) == start + BATCH_SIZE < total

\* postcodes[i:i + self.BATCH_SIZE]
NextBatch(postcodes, start) == Slice(postcodes, start, start + BATCH_SIZE)

\* One pass of lookup_all's loop body, the service behaving as `rep` says.
Iteration(rep) ==
    LET postcodes == Postcodes
        total == Len(postcodes)
        this == NextBatch(postcodes, i)
        r == lookup_batch(this, rep)
    IN  /\ batch' = this
        /\ reply' = rep
        /\ batch_results' = r.results
        /\ http' = r.http
        /\ single_log' = r.single_log
        /\ fallback_sleeps' = r.sleeps
        /\ expected' = expected \o ExpectedFor(this, rep)
        /\ IF r.raised
           THEN /\ stage' = "raised"
                /\ trace' = Append(trace, <<"lookup_batch", this>>)
                /\ UNCHANGED <<i, results>>
           ELSE /\ stage' = stage
                /\ results' = results \o DictValues(r.results)
                /\ trace' = Append(trace, <<"lookup_batch", this>>)
                            \o (IF MoreBatches(i, total) THEN <<<<"sleep">>>> ELSE <<>>)
                /\ i' = i + BATCH_SIZE
        /\ UNCHANGED <<df, output, report>>

InLoop == stage = "lookup" /\ i < Len(df)

\* A batch of blank cells only: lookup_batch returns before any request.
BatchAllBlank ==
    /\ InLoop
    /\ Queries(NextBatch(Postcodes, i)) = {}
    /\ Iteration(NoReply)

\* The batch request is answered 200 with a list of items.
BatchOk ==
    /\ InLoop
    /\ Queries(NextBatch(Postcodes, i)) # {}
    /\ \E echo \in [Queries(NextBatch(Postcodes, i)) -> EchoOutcomes] :
           Iteration([kind |-> "ok", echo |-> echo, single |-> NoSingle])

\* The batch request is answered 200 with a body that carries no result.
BatchEmpty ==
    /\ InLoop
    /\ Queries(NextBatch(Postcodes, i)) # {}
    /\ Iteration([kind |-> "empty", echo |-> NoEcho, single |-> NoSingle])

\* The batch request is answered with a status other than 200.
BatchStatus ==
    /\ InLoop
    /\ Queries(NextBatch(Postcodes, i)) # {}
    /\ \E single \in [NonBlank(NextBatch(Postcodes, i)) -> SingleOutcomes] :
           Iteration([kind |-> "status", echo |-> NoEcho, single |-> single])

\* The batch request times out or fails in transport.
BatchError ==
    /\ InLoop
    /\ Queries(NextBatch(Postcodes, i)) # {}
    /\ \E single \in [NonBlank(NextBatch(Postcodes, i)) -> SingleOutcomes] :
           Iteration([kind |-> "error", echo |-> NoEcho, single |-> single])

\* ------------------------------------------------------------ process_excel

Max(a, b) == IF a > b THEN a ELSE b

\* A row of the written table whose extracted cells are all empty.
EmptyFields == extract_fields(None)

EmptyOriginal == [postcode |-> NaN, description |-> NaN]

\* pd.concat([df, result_df], axis=1): rows are joined on their index, and a
\* frame that has no row at an index contributes empty cells there.
Concat(table, extracted) ==
    [r \in 1..Max(Len(table), Len(extracted)) |->
        (IF r <= Len(table) THEN table[r] ELSE EmptyOriginal)
        @@ (IF r <= Len(extracted) THEN extracted[r] ELSE EmptyFields)]

\* sum(1 for r in results if r is not None)
Successful(rs) == Cardinality({j \in 1..Len(rs) : rs[j] # None})

\* lookup_all returns; process_excel extracts, joins, counts and writes.
WriteOutput ==
    /\ stage = "lookup"
    /\ i >= Len(df)
    /\ LET extracted == [j \in 1..Len(results) |-> extract_fields(results[j])]
       IN  output' = Concat(df, extracted)
    /\ report' = [successful |-> Successful(results), total |-> Len(Postcodes)]
    /\ stage' = "done"
    /\ UNCHANGED << df, i, results, batch_results, batch, reply, http,
                    single_log, fallback_sleeps, trace, expected >>

Next ==
    \/ BatchAllBlank
    \/ BatchOk
    \/ BatchEmpty
    \/ BatchStatus
    \/ BatchError
    \/ WriteOutput

Spec == Init /\ [][Next]_vars

\* ------------------------------------------------- vocabulary of the claims

IsBlank(c) == normalize_postcode(c) = <<>>

\* The bodies of the batch requests the last lookup_batch call issued.
PostBodies == {http[k][2] : k \in {k \in 1..Len(http) : http[k][1] = "POST"}}

\* The codes the last lookup_batch call asked the single endpoint for.
GetCodes == {http[k][2] : k \in {k \in 1..Len(http) : http[k][1] = "GET"}}

\* A lookup_batch call has been made and returned.
BatchReturned == stage # "raised" /\ Len(trace) > 0

\* The last lookup_batch call went to the per-code fallback.
FellBack == BatchReturned /\ reply.kind \in {"status", "error"}

\* The chunks lookup_all handed to lookup_batch, in order.
BatchCalls == SelectSeq(trace, LAMBDA e : e[1] = "lookup_batch")

\* ceil(n / BATCH_SIZE)
ChunkCount(n) == (n + BATCH_SIZE - 1) \div BATCH_SIZE

\* ------------------------------------------------------------------ claims

\* C1: lookup_all returns a list as long as its input whose i-th element is
\* the lookup result (or None) of the i-th input code.
C1_ResultsAlignedWithInput ==
    stage = "done" =>
        /\ Len(results) = Len(Postcodes)
        /\ \A r \in 1..Len(results) : results[r] = expected[r]

\* C2: the written table has one row per input row, and row i is input row i
\* followed by the 8 fields extracted from the lookup result of row i's own
\* postcode (all 8 absent when that lookup failed).
C2_OutputRowsAlignedWithInput ==
    stage = "done" =>
        /\ Len(output) = Len(df)
        /\ \A r \in 1..Len(output) :
               output[r] = df[r] @@ extract_fields(expected[r])

\* C3: when a batch answered by the batch endpoint holds two occurrences of
\* one normalized code, both positions receive the same result value: each
\* occurrence has a result in what lookup_batch returns and in what
\* lookup_all appends, and the two are equal.
C3_DuplicatesFanOut ==
    (BatchReturned /\ reply.kind = "ok") =>
        \A j, k \in 1..Len(batch) :
            (j < k /\ ~IsBlank(batch[j])
                   /\ normalize_postcode(batch[j]) = normalize_postcode(batch[k])) =>
                /\ DictHas(batch_results, batch[j])
                /\ DictHas(batch_results, batch[k])
                /\ DictGet(batch_results, batch[j]) = DictGet(batch_results, batch[k])
                /\ k <= Len(DictValues(batch_results))
                /\ DictValues(batch_results)[j] = DictValues(batch_results)[k]

\* C4: when the batch endpoint answers a chunk with a non-success status,
\* exactly one lookup_single call is made per code of the chunk, in order,
\* and the dict returned has an entry for every code of the chunk, holding
\* what a lookup_single call on that code returned.
C4_StatusFallbackCoversChunk ==
    (BatchReturned /\ reply.kind = "status") =>
        /\ Len(single_log) = Len(batch)
        /\ \A j \in 1..Len(batch) :
               /\ single_log[j].pc = batch[j]
               /\ DictHas(batch_results, batch[j])
               /\ \E k \in 1..Len(single_log) :
                      /\ single_log[k].pc = batch[j]
                      /\ single_log[k].ret = DictGet(batch_results, batch[j])

C4_Witness ==
    /\ BatchReturned
    /\ reply.kind = "status"
    /\ Len(batch) = 3
    /\ batch[1] = batch[3]
    /\ IsBlank(batch[2])
    /\ DictGet(batch_results, batch[1]) # None

\* C5: a timeout or network error never leaves lookup_all as an exception.
\* On the batch call it runs the per-code fallback with the very effects a
\* non-success status has; on a single call it gives None for that code;
\* lookup_all goes on and, when it returns, has handed every chunk to
\* lookup_batch.
C5_TransportErrorsAbsorbed ==
    /\ stage # "raised"
    /\ (BatchReturned /\ reply.kind = "error") =>
           /\ lookup_batch(batch, [reply EXCEPT !.kind = "status"])
                  = [ raised |-> FALSE, results |-> batch_results, http |-> http,
                      single_log |-> single_log, sleeps |-> fallback_sleeps ]
           /\ Len(single_log) = Len(batch)
    /\ FellBack =>
           \A j \in 1..Len(single_log) :
               (~IsBlank(single_log[j].pc) /\ reply.single[single_log[j].pc] = "error") =>
                   single_log[j].ret = None
    /\ stage = "done" => Len(BatchCalls) = ChunkCount(Len(df))

C5_Witness ==
    /\ stage = "lookup"
    /\ reply.kind = "error"
    /\ 0 < i /\ i < Len(df)
    /\ \E j \in 1..Len(single_log) :
           /\ ~IsBlank(single_log[j].pc)
           /\ reply.single[single_log[j].pc] = "error"

\* C6: a blank or absent input code is never in a batch request body, never
\* causes a single-lookup request, and has an entry holding None in the dict
\* lookup_batch returns, on every path.
C6_BlankNeverSentAlwaysAbsent ==
    BatchReturned =>
        /\ \A body \in PostBodies : \A k \in 1..Len(body) : body[k] # <<>>
        /\ <<>> \notin GetCodes
        /\ \A j \in 1..Len(single_log) :
               IsBlank(single_log[j].pc) => single_log[j].gets = 0
        /\ \A j \in 1..Len(batch) :
               IsBlank(batch[j]) =>
                   /\ DictHas(batch_results, batch[j])
                   /\ DictGet(batch_results, batch[j]) = None

\* C7: lookup_single on a non-blank code issues exactly one request; on a
\* found status it returns the structured result, on 404 it returns None and
\* prints nothing, on another status or a transport error it returns None
\* and prints a warning.
C7_LookupSingleOutcomes ==
    FellBack =>
        \A j \in 1..Len(single_log) :
            LET e == single_log[j] IN
            ~IsBlank(e.pc) =>
                LET o == reply.single[e.pc] IN
                /\ e.gets = 1
                /\ o = "found" => e.ret = Some(Result(normalize_postcode(e.pc)))
                /\ o = "notfound" => (e.ret = None /\ ~e.warned)
                /\ o \in {"status", "error"} => (e.ret = None /\ e.warned)

C7_Witness ==
    /\ FellBack
    /\ \A j \in 1..Len(single_log) : ~IsBlank(single_log[j].pc)
    /\ \E j, k, l \in 1..Len(single_log) :
           /\ reply.single[single_log[j].pc] = "found" /\ single_log[j].ret # None
           /\ reply.single[single_log[k].pc] = "notfound" /\ ~single_log[k].warned
           /\ reply.single[single_log[l].pc] = "error" /\ single_log[l].warned

\* C8: for n input codes lookup_all calls lookup_batch ceil(n/100) times, on
\* the contiguous chunks of the input in order, each of 100 codes except
\* possibly the last, and sleeps once between consecutive calls and not after
\* the last.
C8_ChunksAndSleeps ==
    stage = "done" =>
        LET n == Len(df)
            calls == ChunkCount(n)
        IN  /\ Len(BatchCalls) = calls
            /\ \A m \in 1..calls :
                   /\ BatchCalls[m][2]
                          = SubSeq(Postcodes, (m - 1) * BATCH_SIZE + 1, Min(m * BATCH_SIZE, n))
                   /\ m < calls => Len(BatchCalls[m][2]) = BATCH_SIZE
            /\ Len(trace) = IF calls = 0 THEN 0 ELSE 2 * calls - 1
            /\ \A t \in 1..Len(trace) :
                   trace[t][1] = IF t % 2 = 1 THEN "lookup_batch" ELSE "sleep"

C8_Witness ==
    /\ stage = "done"
    /\ Len(df) = 2 * BATCH_SIZE + BATCH_SIZE \div 2
    /\ [m \in 1..Len(BatchCalls) |-> Len(BatchCalls[m][2])]
           = <<BATCH_SIZE, BATCH_SIZE, BATCH_SIZE \div 2>>
    /\ Len(trace) = 5

\* C9: the success ratio reported is k/n, n the number of input rows and k
\* the number of input rows whose postcode resolved to a non-absent result.
C9_SuccessCountPerRow ==
    stage = "done" =>
        report = [ successful |->
                       Cardinality({r \in 1..Len(expected) : expected[r] # None}),
                   total |-> Len(df) ]

\* C10: every request to the batch endpoint carries between 1 and 100
\* normalized codes, all non-empty and pairwise distinct; lookup_batch is
\* never given more than 100 codes, so its size guard never raises; a chunk
\* of blank codes only sends no batch request.
C10_BatchRequestBodies ==
    /\ stage # "raised"
    /\ Len(batch) <= BATCH_SIZE
    /\ Cardinality({k \in 1..Len(http) : http[k][1] = "POST"}) <= 1
    /\ \A body \in PostBodies :
           /\ 1 <= Len(body) /\ Len(body) <= BATCH_SIZE
           /\ \A k \in 1..Len(body) : body[k] # <<>>
           /\ \A j, k \in 1..Len(body) : j # k => body[j] # body[k]
    /\ (BatchReturned /\ \A j \in 1..Len(batch) : IsBlank(batch[j])) => PostBodies = {}

C10_Witness ==
    /\ BatchReturned
    /\ Len(batch) = 3
    /\ IsBlank(batch[1])
    /\ normalize_postcode(batch[2]) = normalize_postcode(batch[3])
    /\ batch[2] # batch[3]
    /\ PostBodies = {<<normalize_postcode(batch[2])>>}

====
